---- MODULE Spec2Model ----
(***************************************************************************)
(* The bitswap worker goroutines of go-bitswap/workers.go as a state       *)
(* machine: startWorkers, which starts them, providerQueryManager and      *)
(* rebroadcastWorker (provider search), provideCollector and provideWorker *)
(* (announce pipeline), taskWorker (outbound envelopes).                   *)
(* Channels whose construction lies outside                                *)
(* workers.go (findKeys, newBlocks, provideKeys) are synchronous hand-offs.*)
(***************************************************************************)
EXTENDS Integers, Sequences, FiniteSets, TLC

\* ---------------------------------------------------------------- bounds
MaxSearches == 2
MaxProviders == 2
MaxInput == 3
MaxProvideWorkers == 2
MaxTaskWorkers == 2
NumEnvelopes == 2
MaxWithdrawn == 1

\* Two content ids: searches for different cids share only the manager loop.
Cids == {1, 2}

VARIABLES
    cancelled,   \* the root context is done (ctx.Done() / px.Closing() readable)
    \* provider search
    wantlist,    \* bs.wm.CurrentWants(): the want-list entries, in order
    reported,    \* the want-list size the metrics tick logged last (0: none)
    rbPc,        \* rebroadcastWorker: "idle" | "sending" | "returned"
    rbReq,       \* the cid of the blockRequest rebroadcastWorker is sending on findKeys
    pqmPc,       \* providerQueryManager: "running" | "returned"
    kset,        \* the set of cids with a search in flight (under activeLk)
    searches,    \* per cid, the search goroutines in flight for it, in launch order
    lastDisp,    \* what providerQueryManager did with the request it received last
    searched,    \* the cids whose search has finished (kset.Remove ran) at least once
    \* announce pipeline
    provideWorkerMax, \* the capacity of the limit channel
    newBlocksClosed,  \* bs.newBlocks has been closed
    sent,             \* the keys received from bs.newBlocks so far, in order
    colPc,            \* provideCollector: "running" | "inputClosed" | "ctxDone"
    toProvide,        \* provideCollector's pending keys
    nextKey,          \* provideCollector's armed key (the one armed last when keysOut is nil)
    keysOut,          \* TRUE when keysOut is bs.provideKeys, FALSE when it is nil
    received,         \* the keys provideWorker received from bs.provideKeys, in order
    pwPc,             \* provideWorker's loop: "select" | "acquire" | "returned"
    pwKey,            \* the key the loop holds while it waits for a slot
    limit,            \* the number of tokens in the limit channel
    tasks,            \* the limitedGoProvide goroutines in flight, in launch order,
                      \* each with its key k and the number n of its key among
                      \* the keys received
    provStarted,      \* the number of Provide calls made
    provCompleted,    \* the number of Provide calls that returned
    sentAtFirstDone,  \* Len(sent) when the first Provide call returned (0: none yet)
    provFailed,       \* some Provide call has returned an error
    provCalls,        \* per key, the number of Provide calls made for it
    \* task workers
    TaskWorkerCount,  \* the number of task workers started
    twPc,             \* per worker: "outer" | "inner" | "ledger" | "send" | "sending" |
                      \*             "count" | "counting" | "returned"
    twEnv,            \* per worker: the envelope it holds
    twIdx,            \* per worker: the blocks of its envelope it has counted
    counterLk,        \* bs.counterLk: the worker that holds it (0: free)
    offered,          \* the number of envelopes the engine has handed out
    withdrawn,        \* the number of inner channels the engine closed unused
    blocksSent,       \* bs.counters.blocksSent
    dataSent,         \* bs.counters.dataSent
    envLog,           \* per envelope: how often each step was made for it,
                      \* and the blocks it was handed out with
    \* startWorkers
    swPc,             \* startWorkers: "pqm" | "loop" | "rebroadcast" | "collector" |
                      \*               "provide" | "returned"
    swI,              \* the loop variable i
    launched          \* the goroutines started with px.Go so far, in order, each
                      \* with its function and, for a task worker, its id

queryVars == <<wantlist, reported, rbPc, rbReq, pqmPc, kset, searches,
              lastDisp, searched>>

provideVars == <<provideWorkerMax, newBlocksClosed, sent, colPc, toProvide,
                 nextKey, keysOut, received, pwPc, pwKey, limit, tasks,
                 provStarted, provCompleted, sentAtFirstDone, provFailed,
                 provCalls>>

taskVars == <<TaskWorkerCount, twPc, twEnv, twIdx, counterLk, offered,
              withdrawn, blocksSent, dataSent, envLog>>

startVars == <<swPc, swI, launched>>

notQuery == <<cancelled, provideVars, taskVars, startVars>>
notProvide == <<cancelled, queryVars, taskVars, startVars>>
notTask == <<cancelled, queryVars, provideVars, startVars>>
notStart == <<cancelled, queryVars, provideVars, taskVars>>

vars == <<cancelled, queryVars, provideVars, taskVars, startVars>>

\* ------------------------------------------------------------- helpers
RECURSIVE Injective(_)
Injective(s) ==
    IF Len(s) <= 1 THEN TRUE
    ELSE /\ \A i \in 2..Len(s) : s[i] # s[1]
         /\ Injective(Tail(s))

IsPrefix(s, t) ==
    /\ Len(s) <= Len(t)
    /\ \A i \in 1..Len(s) : s[i] = t[i]

RemoveAt(s, i) == SubSeq(s, 1, i - 1) \o SubSeq(s, i + 1, Len(s))

\* The want-lists the model starts from (every list of distinct cids is one
\* of these up to the names of the cids; no cid is its own index).
WantLists == {<<>>, <<2>>, <<2, 1>>}

NoCid == 0

\* ------------------------------------------------- rebroadcastWorker
\* The context of a request is rebroadcastWorker's child of the parent
\* context: done when the parent is, or when the worker has returned.
CtxDone == cancelled \/ rbPc = "returned"

\* (variant) the metrics case falls through to a broadcast of the first entry.
RbMetricsTickSubmits ==
    /\ rbPc = "idle"
    /\ LET n == Len(wantlist) IN
       IF n > 0
       THEN /\ reported' = n
            /\ rbReq' = wantlist[1]
            /\ rbPc' = "sending"
       ELSE UNCHANGED <<reported, rbReq, rbPc>>
    /\ UNCHANGED <<wantlist, pqmPc, kset, searches, lastDisp, searched>>
    /\ UNCHANGED notQuery

\* case <-tick.C: n := bs.wm.WantCount(); if n > 0, log it.
RbMetricsTick ==
    /\ rbPc = "idle"
    /\ LET n == Len(wantlist) IN
       reported' = IF n > 0 THEN n ELSE reported
    /\ UNCHANGED <<wantlist, rbPc, rbReq, pqmPc, kset, searches, lastDisp,
                   searched>>
    /\ UNCHANGED notQuery

\* (variant) the index is sent in place of the entry's cid.
RbPickIndex(entries, i) == i

\* (variant) the first entry is sent whatever the index.
RbPickFirst(entries, i) == entries[1]

\* case <-broadcastSignal.C: with an empty want-list, continue; otherwise
\* pick entries[rand.Intn(len(entries))] and start sending it on findKeys.
RbPick(entries, i) == entries[i]

RbBroadcastTick ==
    /\ rbPc = "idle"
    /\ LET entries == wantlist IN
       IF Len(entries) = 0
       THEN UNCHANGED <<rbPc, rbReq>>
       ELSE \E i \in 1..Len(entries) :
               /\ rbReq' = RbPick(entries, i)
               /\ rbPc' = "sending"
    /\ UNCHANGED <<wantlist, reported, pqmPc, kset, searches, lastDisp, searched>>
    /\ UNCHANGED notQuery

\* case <-parent.Done(): return (the select is only reached when not sending).
RbReturn ==
    /\ rbPc = "idle"
    /\ cancelled
    /\ rbPc' = "returned"
    /\ UNCHANGED <<wantlist, reported, rbReq, pqmPc, kset, searches, lastDisp, searched>>
    /\ UNCHANGED notQuery

\* ------------------------------------------------ providerQueryManager
NewSearch(c) ==
    [Cid |-> c, pc |-> "find", toYield |-> 0, open |-> 0, failed |-> FALSE]

\* (variant) the manager without the test of e.Ctx.Done().
DispositionNoCtx(c) == IF c \in kset THEN "dup" ELSE "launched"

\* (variant) the manager without the kset.Has test.
DispositionNoHas(c) == IF CtxDone THEN "cancelled" ELSE "launched"

\* What the manager does with a received request for c: "cancelled" (e.Ctx
\* is done), "dup" (kset.Has(e.Cid)) or "launched" (kset.Add and go func).
Disposition(c) ==
    IF CtxDone THEN "cancelled"
    ELSE IF c \in kset THEN "dup"
    ELSE "launched"

PQMHandle(c) ==
    /\ Disposition(c) = "launched" => Len(searches[c]) < MaxSearches
    /\ lastDisp' = Disposition(c)
    /\ IF Disposition(c) = "launched"
       THEN /\ kset' = kset \cup {c}
            /\ searches' = [searches EXCEPT ![c] = Append(@, NewSearch(c))]
       ELSE UNCHANGED <<kset, searches>>

\* (variant) the manager runs one search at a time, inside its loop.
ManagerAtSelectWhenIdle == kset = {}

\* The manager is at its select whatever searches are in flight: each runs
\* in a goroutine of its own.
ManagerAtSelect == TRUE

\* case e := <-bs.findKeys: the hand-off from rebroadcastWorker's send.
PQMReceive ==
    /\ pqmPc = "running"
    /\ ManagerAtSelect
    /\ rbPc = "sending"
    /\ PQMHandle(rbReq)
    /\ rbPc' = "idle"
    /\ rbReq' = NoCid
    /\ UNCHANGED <<wantlist, reported, pqmPc, searched>>
    /\ UNCHANGED notQuery

\* (variant) the manager joins its searches before it returns.
PQMReturnJoins ==
    /\ pqmPc = "running"
    /\ cancelled
    /\ kset = {}
    /\ pqmPc' = "returned"
    /\ UNCHANGED <<wantlist, reported, rbPc, rbReq, kset, searches, lastDisp, searched>>
    /\ UNCHANGED notQuery

\* case <-ctx.Done(): return
PQMReturn ==
    /\ pqmPc = "running"
    /\ cancelled
    /\ pqmPc' = "returned"
    /\ UNCHANGED <<wantlist, reported, rbPc, rbReq, kset, searches, lastDisp, searched>>
    /\ UNCHANGED notQuery

\* ---------------------------------------------------- search goroutine
SetSearch(c, i, r) ==
    /\ searches' = [searches EXCEPT ![c][i] = r]
    /\ UNCHANGED <<wantlist, reported, rbPc, rbReq, pqmPc, kset, lastDisp, searched>>
    /\ UNCHANGED notQuery

\* providers := bs.network.FindProvidersAsync(child, e.Cid, maxProvidersPerRequest):
\* the stream will yield n peers before it closes (exhaustion, timeout or
\* cancellation of the child context).
SearchFind(c, i) ==
    /\ i \in 1..Len(searches[c])
    /\ searches[c][i].pc = "find"
    /\ \E n \in 0..MaxProviders :
          SetSearch(c, i, [searches[c][i] EXCEPT !.pc = "range", !.toYield = n])

\* for p := range providers { wg.Add(1); go func(p) {...}(p) }
SearchYield(c, i) ==
    /\ i \in 1..Len(searches[c])
    /\ searches[c][i].pc = "range"
    /\ searches[c][i].toYield > 0
    /\ SetSearch(c, i, [searches[c][i] EXCEPT !.toYield = @ - 1, !.open = @ + 1])

\* the provider channel is closed: the range loop ends, wg.Wait() begins.
SearchRangeEnd(c, i) ==
    /\ i \in 1..Len(searches[c])
    /\ searches[c][i].pc = "range"
    /\ searches[c][i].toYield = 0
    /\ SetSearch(c, i, [searches[c][i] EXCEPT !.pc = "wait"])

\* (variant) a failed ConnectTo cancels the child context: the sibling
\* attempts and the rest of the provider stream are given up.
AfterConnectAbort(r, err) ==
    IF err THEN [r EXCEPT !.open = 0, !.toYield = 0, !.failed = TRUE]
    ELSE [r EXCEPT !.open = @ - 1]

\* The search after one ConnectTo returned: if err != nil it is logged;
\* defer wg.Done().
AfterConnect(r, err) == [r EXCEPT !.open = @ - 1, !.failed = @ \/ err]

\* err := bs.network.ConnectTo(child, p) returns in one connect goroutine.
\* The goroutine that returns last after the search removed its cid is the
\* end of the search.
ConnectReturn(c, i) ==
    /\ i \in 1..Len(searches[c])
    /\ searches[c][i].open > 0
    /\ \E err \in BOOLEAN :
          IF searches[c][i].pc = "removed" /\ searches[c][i].open = 1
          THEN searches' = [searches EXCEPT ![c] = RemoveAt(@, i)]
          ELSE searches' = [searches EXCEPT ![c][i] = AfterConnect(@, err)]
    /\ UNCHANGED <<wantlist, reported, rbPc, rbReq, pqmPc, kset, lastDisp, searched>>
    /\ UNCHANGED notQuery

\* (variant) no wait for the connect goroutines.
WaitSkipped(r) == TRUE

\* wg.Wait() returns once every connect goroutine is done.
WaitReturns(r) == r.open = 0

\* (variant) the search goroutine ends without kset.Remove.
SearchRemoveKeepsCid(c, i) ==
    /\ i \in 1..Len(searches[c])
    /\ searches[c][i].pc = "wait"
    /\ WaitReturns(searches[c][i])
    /\ searched' = searched \cup {searches[c][i].Cid}
    /\ searches' = [searches EXCEPT ![c] = RemoveAt(@, i)]
    /\ UNCHANGED <<wantlist, reported, rbPc, rbReq, pqmPc, kset, lastDisp>>
    /\ UNCHANGED notQuery

\* wg.Wait() returned: activeLk.Lock(); kset.Remove(e.Cid); activeLk.Unlock()
\* and the goroutine ends.
SearchRemove(c, i) ==
    /\ i \in 1..Len(searches[c])
    /\ searches[c][i].pc = "wait"
    /\ WaitReturns(searches[c][i])
    /\ kset' = kset \ {searches[c][i].Cid}
    /\ searched' = searched \cup {searches[c][i].Cid}
    /\ IF searches[c][i].open = 0
       THEN searches' = [searches EXCEPT ![c] = RemoveAt(@, i)]
       ELSE searches' = [searches EXCEPT ![c][i].pc = "removed"]
    /\ UNCHANGED <<wantlist, reported, rbPc, rbReq, pqmPc, lastDisp>>
    /\ UNCHANGED notQuery

SearchStep(c, i) ==
    \/ SearchFind(c, i)
    \/ SearchYield(c, i)
    \/ SearchRangeEnd(c, i)
    \/ ConnectReturn(c, i)
    \/ SearchRemove(c, i)

\* ---------------------------------------------------- provideCollector
\* The keys the producer may hand over next: a fresh one, or the one it
\* handed over last once more (provideCollector never looks into a key).
RECURSIVE MaxOf(_)
MaxOf(s) ==
    IF s = <<>> THEN 0
    ELSE IF Head(s) > MaxOf(Tail(s)) THEN Head(s) ELSE MaxOf(Tail(s))

NextKeys(s) == {MaxOf(s) + 1} \cup (IF s = <<>> THEN {} ELSE {s[Len(s)]})

NoKey == 0

\* (variant) a key that is pending already is not appended again.
EnqueueUnique(q, k) ==
    IF \E i \in 1..Len(q) : q[i] = k THEN q ELSE Append(q, k)

\* (variant) the new key is put in front of the pending keys.
EnqueueFront(q, k) == <<k>> \o q

\* toProvide = append(toProvide, blkey)
Enqueue(q, k) == Append(q, k)

\* (variant) the key armed next is the newest pending key.
NextArmedLast(q) == q[Len(q)]

\* nextKey = toProvide[0]
NextArmed(q) == q[1]

\* (variant) a received key is armed whether or not one is armed already.
KeysOutNilAlways(out) == TRUE

\* keysOut == nil
KeysOutNil(out) == ~out

\* (variant) the receive from bs.newBlocks is offered in idle mode only.
RecvOfferedWhenIdle == ~keysOut

\* The select offers case blkey, ok := <-bs.newBlocks in every iteration,
\* whether or not a key is armed.
RecvOffered == TRUE

\* case blkey, ok := <-bs.newBlocks with ok: arm the key when keysOut is nil,
\* else append it to toProvide.
CollectorRecv ==
    /\ colPc = "running"
    /\ RecvOffered
    /\ ~newBlocksClosed
    /\ Len(sent) < MaxInput
    /\ \E blkey \in NextKeys(sent) :
          /\ sent' = Append(sent, blkey)
          /\ IF KeysOutNil(keysOut)
             THEN /\ nextKey' = blkey
                  /\ keysOut' = TRUE
                  /\ UNCHANGED toProvide
             ELSE /\ toProvide' = Enqueue(toProvide, blkey)
                  /\ UNCHANGED <<nextKey, keysOut>>
    /\ UNCHANGED <<provideWorkerMax, newBlocksClosed, colPc, received, pwPc,
                   pwKey, limit, tasks, provStarted, provCompleted,
                   sentAtFirstDone,
                   provFailed, provCalls>>
    /\ UNCHANGED notProvide

\* The producer closes bs.newBlocks.
CloseNewBlocks ==
    /\ ~newBlocksClosed
    /\ newBlocksClosed' = TRUE
    /\ UNCHANGED <<provideWorkerMax, sent, colPc, toProvide, nextKey, keysOut,
                   received, pwPc, pwKey, limit, tasks, provStarted,
                   provCompleted, sentAtFirstDone,
                   provFailed, provCalls>>
    /\ UNCHANGED notProvide

\* case blkey, ok := <-bs.newBlocks with !ok: return; defer close(bs.provideKeys)
CollectorInputClosed ==
    /\ colPc = "running"
    /\ newBlocksClosed
    /\ colPc' = "inputClosed"
    /\ UNCHANGED <<provideWorkerMax, newBlocksClosed, sent, toProvide, nextKey,
                   keysOut, received, pwPc, pwKey, limit, tasks, provStarted,
                   provCompleted, sentAtFirstDone,
                   provFailed, provCalls>>
    /\ UNCHANGED notProvide

\* (variant) the spawner receives a key also while it waits for a slot.
SpawnerReceivesAnywhere == pwPc \in {"select", "acquire"}

\* The spawner reads bs.provideKeys in the outer select only: the inner
\* select, where it waits for a slot, has no such case.
SpawnerReceives == pwPc = "select"

\* case keysOut <- nextKey, received by provideWorker's
\* case k, ok := <-bs.provideKeys: the next pending key is armed, or keysOut
\* becomes nil; provideWorker goes on to wait for a slot.
CollectorSend ==
    /\ colPc = "running"
    /\ keysOut
    /\ SpawnerReceives
    /\ received' = Append(received, nextKey)
    /\ pwKey' = nextKey
    /\ pwPc' = "acquire"
    /\ IF Len(toProvide) > 0
       THEN /\ nextKey' = NextArmed(toProvide)
            /\ toProvide' = Tail(toProvide)
            /\ UNCHANGED keysOut
       ELSE /\ keysOut' = FALSE
            /\ UNCHANGED <<nextKey, toProvide>>
    /\ UNCHANGED <<provideWorkerMax, newBlocksClosed, sent, colPc, limit, tasks,
                   provStarted, provCompleted, sentAtFirstDone,
                   provFailed, provCalls>>
    /\ UNCHANGED notProvide

\* case <-ctx.Done(): return; defer close(bs.provideKeys)
CollectorCancel ==
    /\ colPc = "running"
    /\ cancelled
    /\ colPc' = "ctxDone"
    /\ UNCHANGED <<provideWorkerMax, newBlocksClosed, sent, toProvide, nextKey,
                   keysOut, received, pwPc, pwKey, limit, tasks, provStarted,
                   provCompleted, sentAtFirstDone,
                   provFailed, provCalls>>
    /\ UNCHANGED notProvide

\* (variant) bs.provideKeys is closed on the return for a closed input only.
ProvideKeysClosedOnInput == colPc = "inputClosed"

\* defer close(bs.provideKeys): bs.provideKeys is closed when
\* provideCollector has returned, on either path.
ProvideKeysClosed == colPc # "running"

\* ------------------------------------------------------- provideWorker
\* case k, ok := <-bs.provideKeys with !ok: return
SpawnerKeysClosed ==
    /\ pwPc = "select"
    /\ ProvideKeysClosed
    /\ pwPc' = "returned"
    /\ UNCHANGED <<provideWorkerMax, newBlocksClosed, sent, colPc, toProvide,
                   nextKey, keysOut, received, pwKey, limit, tasks,
                   provStarted, provCompleted, sentAtFirstDone,
                   provFailed, provCalls>>
    /\ UNCHANGED notProvide

\* (variant) only the outer select has a case <-px.Closing().
ClosingPointsOuter == {"select"}

\* the selects with a case <-px.Closing(): the outer one (waiting for a key)
\* and the inner one (waiting for a slot)
ClosingPoints == {"select", "acquire"}

\* case <-px.Closing(): return, in the outer or in the inner select; a key
\* held for a slot is dropped.
SpawnerClosing ==
    /\ pwPc \in ClosingPoints
    /\ cancelled
    /\ pwPc' = "returned"
    /\ pwKey' = NoKey
    /\ UNCHANGED <<provideWorkerMax, newBlocksClosed, sent, colPc, toProvide,
                   nextKey, keysOut, received, limit, tasks, provStarted,
                   provCompleted, sentAtFirstDone,
                   provFailed, provCalls>>
    /\ UNCHANGED notProvide

\* (variant) the send on limit never blocks.
LimitUnbounded == TRUE

\* limit <- struct{}{} can proceed: the channel of capacity provideWorkerMax
\* is not full.
LimitHasRoom == limit < provideWorkerMax

\* case limit <- struct{}{}: go limitedGoProvide(k, wid)
SpawnerAcquire ==
    /\ pwPc = "acquire"
    /\ LimitHasRoom
    /\ limit' = limit + 1
    /\ tasks' = Append(tasks, [k |-> pwKey, n |-> Len(received), pc |-> "start"])
    /\ pwPc' = "select"
    /\ pwKey' = NoKey
    /\ UNCHANGED <<provideWorkerMax, newBlocksClosed, sent, colPc, toProvide,
                   nextKey, keysOut, received, provStarted, provCompleted,
                   sentAtFirstDone,
                   provFailed, provCalls>>
    /\ UNCHANGED notProvide

\* (variant) the task calls Provide once more before it goes on.
AfterProvideCallAgain(t) == t

\* limitedGoProvide makes its one call of bs.network.Provide and waits for
\* its return.
AfterProvideCall(t) == [t EXCEPT !.pc = "providing"]

\* The keys: the producer's n-th key is at most n.
Keys == 1..MaxInput

\* limitedGoProvide reaches bs.network.Provide(ctx, k).
ProvideCall(i) ==
    /\ i \in 1..Len(tasks)
    /\ tasks[i].pc = "start"
    /\ tasks' = [tasks EXCEPT ![i] = AfterProvideCall(@)]
    /\ provStarted' = provStarted + 1
    /\ provCalls' = [provCalls EXCEPT ![tasks[i].k] = @ + 1]
    /\ UNCHANGED <<provideWorkerMax, newBlocksClosed, sent, colPc, toProvide,
                   nextKey, keysOut, received, pwPc, pwKey, limit,
                   provCompleted, sentAtFirstDone,
                   provFailed>>
    /\ UNCHANGED notProvide

\* (variant) the token is given back only after a Provide without error.
SlotsAfterLeak(l, err) == IF err THEN l ELSE l - 1

\* defer func() { <-limit }(): the tokens in limit after a task ended,
\* whatever Provide returned.
SlotsAfter(l, err) == l - 1

\* bs.network.Provide returns (nil, or an error such as the timeout; an error
\* is logged only); the deferred <-limit gives the token back and the
\* goroutine ends.
ProvideReturn(i) ==
    /\ i \in 1..Len(tasks)
    /\ tasks[i].pc = "providing"
    /\ tasks' = RemoveAt(tasks, i)
    /\ \E err \in BOOLEAN :
          /\ limit' = SlotsAfter(limit, err)
          /\ provFailed' = (provFailed \/ err)
    /\ provCompleted' = provCompleted + 1
    /\ sentAtFirstDone' = IF provCompleted = 0 THEN Len(sent)
                          ELSE sentAtFirstDone
    /\ UNCHANGED <<provideWorkerMax, newBlocksClosed, sent, colPc, toProvide,
                   nextKey, keysOut, received, pwPc, pwKey, provStarted,
                   provCalls>>
    /\ UNCHANGED notProvide

ProvideTaskStep(i) ==
    \/ ProvideCall(i)
    \/ ProvideReturn(i)

\* ---------------------------------------------------------- taskWorker
Workers == 1..TaskWorkerCount

Envelopes == 1..NumEnvelopes

\* envelope.Message.Blocks() of the e-th envelope the engine hands out, each
\* block by its len(block.RawData()): two blocks, none, one block, ...
BlocksOf(e) == [i \in 1..((e + 1) % 3) |-> i]

NoEnvelope == [id |-> 0, blocks |-> <<>>, sendOk |-> "none"]

RECURSIVE SumOf(_)
SumOf(s) == IF s = <<>> THEN 0 ELSE Head(s) + SumOf(Tail(s))

NoLog == [obtained |-> 0, ledger |-> 0, sendCalls |-> 0, sendReturns |-> 0,
          sendFailed |-> 0, counted |-> 0, blocks |-> <<>>]

\* (variant) the worker sends before it tells the engine.
FirstStepSend == "send"

\* the first step for an obtained envelope: bs.engine.MessageSent
FirstStep == "ledger"

\* (variant) bs.wm.SendBlocks is left out.
AfterLedgerCount == "count"

\* after bs.engine.MessageSent: bs.wm.SendBlocks
AfterLedger == "send"

\* (variant) a failed transmission is tried again.
AfterSendRetry(ok) == IF ok THEN "count" ELSE "send"

\* after bs.wm.SendBlocks returned, whatever became of the transmission: the
\* counters
AfterSend(ok) == "count"

\* (variant) the worker ends when its inner channel was closed unused.
AfterWithdrawnReturn == "returned"

\* after an inner channel closed unused: continue at the head of the loop
AfterWithdrawn == "outer"

\* (variant) the worker also looks at ctx.Done() before bs.wm.SendBlocks.
ReturnPointsMid == {"outer", "inner", "send"}

\* (variant) only the outer select has a case <-ctx.Done().
ReturnPointsOuter == {"outer"}

\* the selects with a case <-ctx.Done(): the outer and the inner one
ReturnPoints == {"outer", "inner"}

\* (variant) the counters are updated without bs.counterLk.
LockFreeAlways == TRUE

\* bs.counterLk.Lock() can proceed: no worker holds the mutex
LockFree == counterLk = 0

SetWorker(w, pc) ==
    /\ twPc' = [twPc EXCEPT ![w] = pc]
    /\ UNCHANGED TaskWorkerCount
    /\ UNCHANGED notTask

\* case nextEnvelope := <-bs.engine.Outbox(): the engine hands the worker a
\* one-time channel.
TaskRecvOuter(w) ==
    /\ twPc[w] = "outer"
    /\ SetWorker(w, "inner")
    /\ UNCHANGED <<twEnv, twIdx, counterLk, offered, withdrawn, blocksSent,
                   dataSent, envLog>>

\* case envelope, ok := <-nextEnvelope with ok: the engine's next envelope,
\* which it offers to no other worker.
TaskRecvEnvelope(w) ==
    /\ twPc[w] = "inner"
    /\ offered < NumEnvelopes
    /\ offered' = offered + 1
    /\ twEnv' = [twEnv EXCEPT ![w] = [id |-> offered + 1,
                                      blocks |-> BlocksOf(offered + 1),
                                      sendOk |-> "none"]]
    /\ envLog' = [envLog EXCEPT ![offered + 1].obtained = @ + 1,
                                ![offered + 1].blocks = twEnv'[w].blocks]
    /\ SetWorker(w, FirstStep)
    /\ UNCHANGED <<twIdx, counterLk, withdrawn, blocksSent, dataSent>>

\* case envelope, ok := <-nextEnvelope with !ok: continue
TaskRecvWithdrawn(w) ==
    /\ twPc[w] = "inner"
    /\ withdrawn < MaxWithdrawn
    /\ withdrawn' = withdrawn + 1
    /\ SetWorker(w, AfterWithdrawn)
    /\ UNCHANGED <<twEnv, twIdx, counterLk, offered, blocksSent, dataSent,
                   envLog>>

\* (variant) the worker goes on without telling the engine.
TaskMessageSentNoLedger(w) ==
    /\ twPc[w] = "ledger"
    /\ SetWorker(w, AfterLedger)
    /\ UNCHANGED <<twEnv, twIdx, counterLk, offered, withdrawn, blocksSent,
                   dataSent, envLog>>

\* outgoing := bsmsg.New(false); outgoing.AddBlock(block) for every block;
\* bs.engine.MessageSent(envelope.Peer, outgoing)
TaskMessageSent(w) ==
    /\ twPc[w] = "ledger"
    /\ envLog' = [envLog EXCEPT ![twEnv[w].id].ledger = @ + 1]
    /\ SetWorker(w, AfterLedger)
    /\ UNCHANGED <<twEnv, twIdx, counterLk, offered, withdrawn, blocksSent,
                   dataSent>>

\* bs.wm.SendBlocks(ctx, envelope) is called
TaskSendBlocksCall(w) ==
    /\ twPc[w] = "send"
    /\ envLog' = [envLog EXCEPT ![twEnv[w].id].sendCalls = @ + 1]
    /\ SetWorker(w, "sending")
    /\ UNCHANGED <<twEnv, twIdx, counterLk, offered, withdrawn, blocksSent,
                   dataSent>>

\* bs.wm.SendBlocks returns; it reports no error to the worker.
TaskSendBlocksReturn(w) ==
    /\ twPc[w] = "sending"
    /\ \E ok \in BOOLEAN :
          /\ twEnv' = [twEnv EXCEPT ![w].sendOk = IF ok THEN "ok" ELSE "failed"]
          /\ envLog' = [envLog EXCEPT
                           ![twEnv[w].id].sendReturns = @ + 1,
                           ![twEnv[w].id].sendFailed = IF ok THEN @ ELSE @ + 1]
          /\ SetWorker(w, AfterSend(ok))
    /\ UNCHANGED <<twIdx, counterLk, offered, withdrawn, blocksSent, dataSent>>

\* bs.counterLk.Lock()
TaskLock(w) ==
    /\ twPc[w] = "count"
    /\ LockFree
    /\ counterLk' = w
    /\ SetWorker(w, "counting")
    /\ UNCHANGED <<twEnv, twIdx, offered, withdrawn, blocksSent, dataSent,
                   envLog>>

\* for _, block := range envelope.Message.Blocks(): blocksSent++,
\* dataSent += uint64(len(block.RawData()))
TaskCountBlock(w) ==
    /\ twPc[w] = "counting"
    /\ twIdx[w] < Len(twEnv[w].blocks)
    /\ blocksSent' = blocksSent + 1
    /\ dataSent' = dataSent + twEnv[w].blocks[twIdx[w] + 1]
    /\ twIdx' = [twIdx EXCEPT ![w] = @ + 1]
    /\ UNCHANGED <<TaskWorkerCount, twPc, twEnv, counterLk, offered, withdrawn,
                   envLog>>
    /\ UNCHANGED notTask

\* the range is over: bs.counterLk.Unlock(), back to the head of the loop
TaskUnlock(w) ==
    /\ twPc[w] = "counting"
    /\ twIdx[w] = Len(twEnv[w].blocks)
    /\ counterLk' = 0
    /\ envLog' = [envLog EXCEPT ![twEnv[w].id].counted = @ + 1]
    /\ twEnv' = [twEnv EXCEPT ![w] = NoEnvelope]
    /\ twIdx' = [twIdx EXCEPT ![w] = 0]
    /\ SetWorker(w, "outer")
    /\ UNCHANGED <<offered, withdrawn, blocksSent, dataSent>>

\* case <-ctx.Done(): return, in the outer or in the inner select
TaskReturn(w) ==
    /\ twPc[w] \in ReturnPoints
    /\ cancelled
    /\ SetWorker(w, "returned")
    /\ UNCHANGED <<twEnv, twIdx, counterLk, offered, withdrawn, blocksSent,
                   dataSent, envLog>>

TaskStep(w) ==
    \/ TaskRecvOuter(w)
    \/ TaskRecvEnvelope(w)
    \/ TaskRecvWithdrawn(w)
    \/ TaskMessageSent(w)
    \/ TaskSendBlocksCall(w)
    \/ TaskSendBlocksReturn(w)
    \/ TaskLock(w)
    \/ TaskCountBlock(w)
    \/ TaskUnlock(w)

\* ---------------------------------------------------------- startWorkers
\* var TaskWorkerCount = 8
TaskWorkerCountDefault == 8

\* The id of a goroutine that takes none.
NoId == -1

Goroutine(fn, id) == [fn |-> fn, id |-> id]

\* (variant) the closures share the loop variable, which is TaskWorkerCount
\* when they read it.
CapturedShared(i) == TaskWorkerCount

\* i := i: each closure has its own copy of the loop variable
Captured(i) == i

\* (variant) the loop runs once more.
LoopGoesOnInclusive(i) == i <= TaskWorkerCount

\* i < TaskWorkerCount
LoopGoesOn(i) == i < TaskWorkerCount

\* px.Go(func ...) for one of the four single workers, then on to the next
\* statement.
StartSingle(pc, fn, next) ==
    /\ swPc = pc
    /\ launched' = Append(launched, Goroutine(fn, NoId))
    /\ swPc' = next

\* px.Go(func(px process.Process) { bs.providerQueryManager(ctx) }); i := 0
StartQueryManager ==
    /\ StartSingle("pqm", "providerQueryManager", "loop")
    /\ swI' = 0
    /\ UNCHANGED notStart

\* i < TaskWorkerCount: px.Go(func ... { bs.taskWorker(ctx, i) }); i++
StartTaskWorker ==
    /\ swPc = "loop"
    /\ LoopGoesOn(swI)
    /\ launched' = Append(launched, Goroutine("taskWorker", Captured(swI)))
    /\ swI' = swI + 1
    /\ UNCHANGED swPc
    /\ UNCHANGED notStart

\* !(i < TaskWorkerCount): the loop ends
StartLoopEnd ==
    /\ swPc = "loop"
    /\ ~LoopGoesOn(swI)
    /\ swPc' = "rebroadcast"
    /\ UNCHANGED <<swI, launched>>
    /\ UNCHANGED notStart

\* px.Go(func(px process.Process) { bs.rebroadcastWorker(ctx) })
StartRebroadcast ==
    /\ StartSingle("rebroadcast", "rebroadcastWorker", "collector")
    /\ UNCHANGED swI
    /\ UNCHANGED notStart

\* px.Go(func(px process.Process) { bs.provideCollector(ctx) })
StartCollector ==
    /\ StartSingle("collector", "provideCollector", "provide")
    /\ UNCHANGED swI
    /\ UNCHANGED notStart

\* px.Go(bs.provideWorker); startWorkers returns
StartProvideWorker ==
    /\ StartSingle("provide", "provideWorker", "returned")
    /\ UNCHANGED swI
    /\ UNCHANGED notStart

\* The goroutines startWorkers has started when it returns, in order.
LaunchedAll(n) ==
    <<Goroutine("providerQueryManager", NoId)>>
        \o [k \in 1..n |-> Goroutine("taskWorker", k - 1)]
        \o <<Goroutine("rebroadcastWorker", NoId),
             Goroutine("provideCollector", NoId),
             Goroutine("provideWorker", NoId)>>

\* The task worker with index w of the model is the one started with id w - 1.
IsLaunched(w) ==
    \E k \in 1..Len(launched) :
        launched[k].fn = "taskWorker" /\ launched[k].id = w - 1

\* A task worker that has been started returns on <-ctx.Done().
StartedTaskReturn ==
    \E w \in Workers : IsLaunched(w) /\ TaskReturn(w)

\* --------------------------------------------------------- environment
\* The owner of the root context cancels it.
Cancel ==
    /\ ~cancelled
    /\ cancelled' = TRUE
    /\ UNCHANGED <<queryVars, provideVars, taskVars, startVars>>

\* ------------------------------------------------------ specification
\* startWorkers: the state of each group of workers when it is started.
QueryStart(wants) ==
    /\ wantlist = wants
    /\ reported = 0
    /\ rbPc = "idle"
    /\ rbReq = NoCid
    /\ pqmPc = "running"
    /\ kset = {}
    /\ searches = [c \in Cids |-> <<>>]
    /\ lastDisp = "none"
    /\ searched = {}

ProvideStart(max) ==
    /\ provideWorkerMax = max
    /\ newBlocksClosed = FALSE
    /\ sent = <<>>
    /\ colPc = "running"
    /\ toProvide = <<>>
    /\ nextKey = NoKey
    /\ keysOut = FALSE
    /\ received = <<>>
    /\ pwPc = "select"
    /\ pwKey = NoKey
    /\ limit = 0
    /\ tasks = <<>>
    /\ provStarted = 0
    /\ provCompleted = 0
    /\ sentAtFirstDone = 0
    /\ provFailed = FALSE
    /\ provCalls = [k \in Keys |-> 0]

TaskStart(n) ==
    /\ TaskWorkerCount = n
    /\ twPc = [w \in 1..n |-> "outer"]
    /\ twEnv = [w \in 1..n |-> NoEnvelope]
    /\ twIdx = [w \in 1..n |-> 0]
    /\ counterLk = 0
    /\ offered = 0
    /\ withdrawn = 0
    /\ blocksSent = 0
    /\ dataSent = 0
    /\ envLog = [e \in Envelopes |-> NoLog]

\* startWorkers has returned.
StartReturned ==
    /\ swPc = "returned"
    /\ swI = TaskWorkerCount
    /\ launched = LaunchedAll(TaskWorkerCount)

\* provider search: rebroadcastWorker, providerQueryManager and its searches
QueryInit ==
    /\ cancelled = FALSE
    /\ \E wants \in WantLists : QueryStart(wants)
    /\ ProvideStart(1)
    /\ TaskStart(1)
    /\ StartReturned

QueryNext ==
    \/ RbMetricsTick
    \/ RbBroadcastTick
    \/ RbReturn
    \/ PQMReceive
    \/ PQMReturn
    \/ \E c \in Cids, i \in 1..MaxSearches : SearchStep(c, i)
    \/ Cancel

QuerySpec == QueryInit /\ [][QueryNext]_vars

\* Every launched goroutine is scheduled; the provider stream is finite and
\* every ConnectTo returns, so each step of a search happens eventually.
QueryFair == \A c \in Cids : WF_vars(\E i \in 1..MaxSearches : SearchStep(c, i))

FairQuerySpec == QuerySpec /\ QueryFair

\* The two loops are scheduled too: a ready receive from findKeys and a
\* ready case <-ctx.Done() / <-parent.Done() are eventually taken.
QueryLoopFair ==
    /\ WF_vars(PQMReceive)
    /\ WF_vars(PQMReturn)
    /\ WF_vars(RbReturn)

FairQueryStopSpec == QuerySpec /\ QueryFair /\ QueryLoopFair

\* announce pipeline: provideCollector, provideWorker and its announce tasks
ProvideInit ==
    /\ cancelled = FALSE
    /\ QueryStart(<<>>)
    /\ \E max \in 1..MaxProvideWorkers : ProvideStart(max)
    /\ TaskStart(1)
    /\ StartReturned

ProvideNext ==
    \/ CollectorRecv
    \/ CloseNewBlocks
    \/ CollectorInputClosed
    \/ CollectorSend
    \/ CollectorCancel
    \/ SpawnerKeysClosed
    \/ SpawnerClosing
    \/ SpawnerAcquire
    \/ \E i \in 1..MaxInput : ProvideTaskStep(i)
    \/ Cancel

ProvideSpec == ProvideInit /\ [][ProvideNext]_vars

\* The collector's select takes a ready send, the spawner a free slot, and
\* every announce task is scheduled and its Provide call returns (it has a
\* timeout).
ProvideFair ==
    /\ WF_vars(CollectorSend)
    /\ WF_vars(SpawnerAcquire)
    /\ WF_vars(\E i \in 1..MaxInput : ProvideTaskStep(i))

FairProvideSpec == ProvideSpec /\ ProvideFair

\* A spawner that stays at a select whose case <-px.Closing() is ready takes
\* it.
ProvideStopFair == WF_vars(SpawnerClosing)

FairProvideStopSpec == ProvideSpec /\ ProvideFair /\ ProvideStopFair

\* A spawner that stays at the outer select while bs.provideKeys is closed
\* takes the receive, which is ready for good.
ProvideCloseFair == WF_vars(SpawnerKeysClosed)

FairProvideCloseSpec ==
    ProvideSpec /\ ProvideFair /\ ProvideStopFair /\ ProvideCloseFair

\* outbound envelopes: the task workers
TaskInit ==
    /\ cancelled = FALSE
    /\ QueryStart(<<>>)
    /\ ProvideStart(1)
    /\ \E n \in 1..MaxTaskWorkers : TaskStart(n)
    /\ StartReturned

TaskNext ==
    \/ \E w \in Workers : TaskStep(w)
    \/ \E w \in Workers : TaskReturn(w)
    \/ Cancel

TaskSpec == TaskInit /\ [][TaskNext]_vars

\* Every worker is scheduled, SendBlocks returns, and the engine hands out
\* the envelopes it has to a worker that waits for one.
TaskFair == \A w \in 1..MaxTaskWorkers : WF_vars(w \in Workers /\ TaskStep(w))

FairTaskSpec == TaskSpec /\ TaskFair

\* A worker that stays at a select whose case <-ctx.Done() is ready takes it.
TaskReturnFair ==
    \A w \in 1..MaxTaskWorkers : WF_vars(w \in Workers /\ TaskReturn(w))

FairTaskStopSpec == TaskSpec /\ TaskFair /\ TaskReturnFair

\* startWorkers, and the task workers it started as far as their return
StartInit ==
    /\ cancelled = FALSE
    /\ QueryStart(<<>>)
    /\ ProvideStart(1)
    /\ \E n \in (1..MaxTaskWorkers) \cup {TaskWorkerCountDefault} : TaskStart(n)
    /\ swPc = "pqm"
    /\ swI = 0
    /\ launched = <<>>

StartNext ==
    \/ StartQueryManager
    \/ StartTaskWorker
    \/ StartLoopEnd
    \/ StartRebroadcast
    \/ StartCollector
    \/ StartProvideWorker
    \/ StartedTaskReturn
    \/ Cancel

StartSpec == StartInit /\ [][StartNext]_vars

\* the workers together
Init ==
    /\ cancelled = FALSE
    /\ \E wants \in WantLists : QueryStart(wants)
    /\ \E max \in 1..MaxProvideWorkers : ProvideStart(max)
    /\ \E n \in 1..MaxTaskWorkers : TaskStart(n)
    /\ StartReturned

Next == QueryNext \/ ProvideNext \/ TaskNext

Spec == Init /\ [][Next]_vars

\* ================================================================ claims
\* A receive on findKeys: rebroadcastWorker's send completes.
PQMReceived == rbPc = "sending" /\ rbPc' = "idle"

\* C1: deduplication.  At no time are two searches for the same cid in
\* flight, and a request for a cid that is in the active set is dropped:
\* receiving it starts no search and leaves the active set as it is.
C1_OneSearchPerCid == \A c \in Cids : Len(searches[c]) <= 1

C1_DupDropped ==
    (PQMReceived /\ rbReq \in kset) =>
        /\ searches' = searches
        /\ kset' = kset
        /\ lastDisp' \in {"dup", "cancelled"}

C1_Dedup == [] C1_OneSearchPerCid /\ [][C1_DupDropped]_vars

\* a request for a cid was dropped as a duplicate while its search is in flight
C1_Witness ==
    \E c \in Cids : lastDisp = "dup" /\ c \in kset /\ Len(searches[c]) = 1

\* C2: a cid is in the active set exactly when a search accepted for it has
\* not finished: its goroutine has not run kset.Remove yet, or a ConnectTo it
\* launched has not returned.
C2_ActiveSetExact ==
    \A c \in Cids : (c \in kset) <=> (Len(searches[c]) > 0)

\* a search whose connection attempts have all returned, not yet removed
C2_Witness ==
    \E c \in Cids :
        /\ c \in kset
        /\ Len(searches[c]) = 1
        /\ searches[c][1].pc = "wait"
        /\ searches[c][1].open = 0
        /\ kset # Cids

\* C3: every cid added to the active set is removed again, also when the
\* context is cancelled after the request was accepted, and no search starts
\* for a cid that is in the active set.
C3_NoSearchWhileActive ==
    \A c \in Cids : Len(searches'[c]) > Len(searches[c]) => c \notin kset

C3_EventuallyRemoved ==
    /\ \A c \in Cids : (c \in kset) ~> (c \notin kset)
    /\ [][C3_NoSearchWhileActive]_vars

\* a search was accepted, the context was cancelled, the set is empty again
C3_Witness ==
    /\ cancelled
    /\ lastDisp = "launched"
    /\ searched # {}
    /\ kset = {}

\* C4: once the search for a cid has finished and removed it, the next
\* request for that cid received with a live context launches a new search.
C4_Relaunch ==
    (PQMReceived /\ ~CtxDone /\ rbReq \in searched /\ Len(searches[rbReq]) = 0) =>
        /\ Len(searches'[rbReq]) = 1
        /\ searches'[rbReq][1].pc = "find"
        /\ rbReq \in kset'

C4_SearchAgain == [][C4_Relaunch]_vars

\* the second search for a cid is in flight
C4_Witness ==
    \E c \in Cids :
        /\ c \in searched
        /\ c \in kset
        /\ Len(searches[c]) = 1
        /\ lastDisp = "launched"

\* -------------------------------------------- claims: rebroadcastWorker
\* C17: a firing of the rebroadcast timer submits at most one request: none
\* when the want-list is empty, and one when it is not, whose cid is an entry
\* of the want-list read at that tick.
Entries(list) == {list[i] : i \in 1..Len(list)}

C17_SubmitsEntry ==
    /\ rbPc = "sending" => wantlist # <<>> /\ rbReq \in Entries(wantlist)
    /\ rbPc # "sending" => rbReq = NoCid

C17_TickStep ==
    RbBroadcastTick =>
        IF wantlist = <<>>
        THEN rbPc' = "idle" /\ rbReq' = NoCid
        ELSE rbPc' = "sending" /\ rbReq' \in Entries(wantlist)

C17_AtMostOnePerTick == [] C17_SubmitsEntry /\ [][C17_TickStep]_vars

\* A tick on a two-entry want-list has submitted one of its entries.
C17_Witness ==
    /\ Len(wantlist) = 2
    /\ rbPc = "sending"
    /\ rbReq = wantlist[1]

\* C18: with a static, non-empty want-list, every entry is a possible
\* selection of any rebroadcast tick, whatever its position in the list: for
\* each entry the tick has a successor that submits it.
C18_EveryEntryPossible ==
    \A k \in 1..Len(wantlist) :
        rbPc = "idle" => ENABLED (RbBroadcastTick /\ rbReq' = wantlist[k])

\* After an earlier submission was taken, a tick has picked the last entry
\* of a two-entry want-list.
C18_Witness ==
    /\ Len(wantlist) = 2
    /\ rbPc = "sending"
    /\ rbReq = wantlist[2]
    /\ lastDisp # "none"

\* C19: after the parent context is cancelled rebroadcastWorker eventually
\* returns in every behaviour, also when the cancellation comes while it is
\* sending on findKeys and providerQueryManager has stopped receiving.
C19_WorkerReturns == cancelled ~> (rbPc = "returned")

\* C20: a firing of the metrics timer only reads the want-list size: it
\* submits no request and leaves the want-list, what is being sent on
\* findKeys and the active set unchanged.
C20_MetricsStep ==
    reported' # reported =>
        /\ reported' = Len(wantlist)
        /\ wantlist' = wantlist
        /\ rbPc' = rbPc /\ rbReq' = rbReq
        /\ kset' = kset /\ searches' = searches
        /\ lastDisp' = lastDisp

C20_MetricsReadOnly == [][C20_MetricsStep]_vars

\* The metrics tick has logged the size of a non-empty want-list and nothing
\* was ever submitted.
C20_Witness ==
    /\ reported = Len(wantlist)
    /\ reported > 0
    /\ rbPc = "idle"
    /\ lastDisp = "none"
    /\ kset = {}

\* ----------------------------------------- claims: providerQueryManager
\* C21: a request whose context is already done when providerQueryManager
\* receives it is dropped: the active set is unchanged, no search (no
\* FindProvidersAsync, no ConnectTo) is started for it, and the manager is
\* still in its loop for the next request.
C21_DropStep ==
    (PQMReceived /\ CtxDone) =>
        /\ kset' = kset
        /\ searches' = searches
        /\ lastDisp' = "cancelled"
        /\ pqmPc' = "running"

C21_DoneRequestDropped == [][C21_DropStep]_vars

\* A request that arrived after the cancellation was dropped with no search
\* in flight, and the manager is still running.
C21_Witness ==
    /\ cancelled
    /\ lastDisp = "cancelled"
    /\ pqmPc = "running"
    /\ kset = {}
    /\ \A c \in Cids : searches[c] = <<>>

\* C22: within one search a ConnectTo attempt is launched for every peer the
\* provider stream yields, whether or not earlier attempts failed; an attempt
\* that returns, failed or not, takes itself alone out of the attempts in
\* flight, leaves the rest of the stream to be ranged over and does not end
\* the search; the cid leaves the active set only when every launched attempt
\* has returned.
C22_SearchStep(r, q) ==
    /\ q.toYield < r.toYield => q.open = r.open + 1 /\ q.toYield = r.toYield - 1
    /\ q.open < r.open =>
          /\ q.open = r.open - 1
          /\ q.toYield = r.toYield
          /\ q.pc = r.pc

C22_Step ==
    \A c \in Cids :
        /\ Len(searches'[c]) = Len(searches[c]) =>
              \A i \in 1..Len(searches[c]) :
                  C22_SearchStep(searches[c][i], searches'[c][i])
        /\ (c \in kset /\ c \notin kset') =>
              \A i \in 1..Len(searches[c]) :
                  searches[c][i].open = 0 /\ searches[c][i].toYield = 0

C22_FailedAttemptActive ==
    \A c \in Cids : \A i \in 1..Len(searches[c]) :
        (searches[c][i].failed /\ searches[c][i].open > 0) => c \in kset

C22_FailureIgnored == [] C22_FailedAttemptActive /\ [][C22_Step]_vars

\* One attempt of a search has failed while a sibling attempt is in flight
\* and the search is still ranging over the stream.
C22_Witness ==
    \E c \in Cids :
        /\ Len(searches[c]) = 1
        /\ searches[c][1].failed
        /\ searches[c][1].open > 0
        /\ searches[c][1].pc = "range"
        /\ c \in kset

\* C23: when its context is cancelled providerQueryManager can return at
\* once, whatever searches are in flight, and eventually does; the searches
\* it launched go on by themselves and still remove their cid from the active
\* set when they finish.
C23_ReturnNotBlocked ==
    (cancelled /\ pqmPc = "running") => ENABLED PQMReturn

C23_ManagerStops ==
    /\ [] C23_ReturnNotBlocked
    /\ cancelled ~> (pqmPc = "returned")
    /\ (pqmPc = "returned") ~> (kset = {})

\* The manager has returned while a search it launched has not yet begun to
\* look for providers.
C23_Witness ==
    \E c \in Cids :
        /\ pqmPc = "returned"
        /\ c \in kset
        /\ Len(searches[c]) = 1
        /\ searches[c][1].pc = "find"

\* C30: providerQueryManager never waits for a search: whatever searches are
\* in flight it can receive the request being sent, and a request with a live
\* context for a cid that is not in the active set is accepted and its search
\* launched at once, the searches in flight staying as they are.
C30_ReceiveNotBlocked ==
    (pqmPc = "running" /\ rbPc = "sending") => ENABLED PQMReceive

C30_LaunchStep ==
    (PQMReceived /\ ~CtxDone /\ rbReq \notin kset) =>
        /\ kset' = kset \cup {rbReq}
        /\ Len(searches'[rbReq]) = Len(searches[rbReq]) + 1
        /\ \A c \in Cids \ {rbReq} : searches'[c] = searches[c]

C30_NoWaitForSearch == [] C30_ReceiveNotBlocked /\ [][C30_LaunchStep]_vars

\* Searches for all the cids are in flight together, none of them finished.
C30_Witness ==
    /\ kset = Cids
    /\ \A c \in Cids :
          /\ Len(searches[c]) = 1
          /\ searches[c][1].pc \in {"find", "range"}

\* ----------------------------------------------- claims: announce pipeline
\* C5: in every reachable state the number of announce tasks between their
\* launch and the release of their slot is at most provideWorkerMax, for every
\* provideWorkerMax >= 1 and however fast keys arrive on provideKeys.
C5_AtMostWInFlight ==
    /\ Len(tasks) <= provideWorkerMax
    /\ limit = Len(tasks)

\* All of several slots are taken and provideWorker holds a further key,
\* waiting for a slot.
C5_Witness ==
    /\ provideWorkerMax > 1
    /\ Len(tasks) = provideWorkerMax
    /\ pwPc = "acquire"
    /\ pwKey # NoKey

\* C6: for pairwise distinct keys sent on newBlocks, at every moment the
\* sequence received on provideKeys is a prefix of the sequence sent so far,
\* without a duplicate; with no cancellation, the input kept open and a
\* consumer that keeps receiving, the n-th key sent is eventually received.
C6_PrefixOfInput ==
    Injective(sent) => IsPrefix(received, sent) /\ Injective(received)

C6_InOrderNoLoss ==
    /\ [] C6_PrefixOfInput
    /\ \A n \in 1..MaxInput :
          (Len(sent) >= n) ~> (Len(received) >= n \/ cancelled \/ newBlocksClosed)

\* Three distinct keys went in, two of them were pending behind the armed
\* one, and all three came out.
C6_Witness ==
    /\ Injective(sent)
    /\ Len(sent) >= 3
    /\ received = sent
    /\ sentAtFirstDone >= 3
    /\ ~cancelled
    /\ ~newBlocksClosed

\* C7: when newBlocks is closed while a key is armed or keys are pending,
\* provideKeys is closed only after the armed key and every pending key have
\* been delivered: no key accepted before the input closed is lost.
C7_ClosedAfterDrain ==
    colPc = "inputClosed" => received = sent

\* C8: with provideWorkerMax = 1 at most one announce is in flight at any
\* time, and the Provide calls start and complete in the order of the input:
\* the n-th call to start, and the n-th to return, is the one for the n-th
\* key sent.
C8_OneInFlight == provideWorkerMax = 1 => Len(tasks) <= 1

C8_OrderStep ==
    provideWorkerMax = 1 =>
        /\ provStarted' # provStarted =>
              \E i \in 1..Len(tasks) :
                  /\ tasks[i].pc = "start"
                  /\ tasks'[i].pc = "providing"
                  /\ tasks[i].n = provStarted'
                  /\ tasks[i].k = sent[provStarted']
        /\ provCompleted' # provCompleted =>
              \E i \in 1..Len(tasks) :
                  /\ tasks[i].pc = "providing"
                  /\ Len(tasks') = Len(tasks) - 1
                  /\ tasks[i].n = provCompleted'
                  /\ tasks[i].k = sent[provCompleted']
                  /\ provStarted = provCompleted'

C8_SerialInOrder == [] C8_OneInFlight /\ [][C8_OrderStep]_vars

\* A, B and C had all arrived when the first announce finished, and all
\* three announces are done.
C8_Witness ==
    /\ provideWorkerMax = 1
    /\ Injective(sent)
    /\ sentAtFirstDone >= 3
    /\ provCompleted >= 3

\* C24: an announce task gives its slot back exactly once when it ends,
\* whatever Provide returned; a failed Provide is not called again, ends no
\* other task and leaves the spawner loop where it is, so that all the slots
\* are free again once no task is left.
C24_SlotsAccounted ==
    /\ tasks = <<>> => limit = 0
    /\ provStarted <= provCompleted + Len(tasks)
    /\ provCompleted + Len(tasks) <= Len(received)

C24_CompletionStep ==
    provCompleted' # provCompleted =>
        /\ provCompleted' = provCompleted + 1
        /\ limit' = limit - 1
        /\ \E i \in 1..Len(tasks) : tasks' = RemoveAt(tasks, i)
        /\ provStarted' = provStarted
        /\ pwPc' = pwPc /\ pwKey' = pwKey

C24_SlotReleasedOnce == [] C24_SlotsAccounted /\ [][C24_CompletionStep]_vars

\* A Provide call failed; every key went through its one Provide call, all
\* slots are free and the spawner is still in its loop.
C24_Witness ==
    /\ provFailed
    /\ provCompleted >= 3
    /\ tasks = <<>>
    /\ limit = 0
    /\ pwPc = "select"
    /\ ~cancelled

\* C25: once the process is closing the spawner loop can return at once,
\* when it waits for a key and when it waits for a slot with every slot
\* taken, and eventually does; the announce tasks in flight still end and
\* give their slots back afterwards.
C25_ClosingNotBlocked ==
    (cancelled /\ pwPc \in {"select", "acquire"}) => ENABLED SpawnerClosing

C25_SpawnerStops ==
    /\ [] C25_ClosingNotBlocked
    /\ cancelled ~> (pwPc = "returned")
    /\ (cancelled /\ pwPc = "returned") ~> (tasks = <<>> /\ limit = 0)

\* The spawner returned on closing while it held a key and every slot was
\* taken; the tasks are still in flight.
C25_Witness ==
    /\ cancelled
    /\ pwPc = "returned"
    /\ Len(tasks) = provideWorkerMax
    /\ Len(received) > provCompleted + Len(tasks)

\* C26: in idle mode (keysOut nil) nothing is pending and nothing is offered;
\* in armed mode one key is offered, the oldest one not yet delivered, and
\* toProvide holds the later undelivered keys in arrival order; when the
\* armed key is taken the head of toProvide is armed, or the collector is
\* idle again when toProvide is empty.
C26_Modes ==
    IF keysOut
    THEN nextKey # NoKey /\ sent = received \o <<nextKey>> \o toProvide
    ELSE toProvide = <<>> /\ sent = received

C26_TakeStep ==
    received' # received =>
        /\ received' = Append(received, nextKey)
        /\ IF toProvide # <<>>
           THEN /\ keysOut'
                /\ nextKey' = Head(toProvide)
                /\ toProvide' = Tail(toProvide)
           ELSE /\ ~keysOut'
                /\ toProvide' = <<>>

C26_IdleArmed == [] C26_Modes /\ [][C26_TakeStep]_vars

\* Armed again after a key was taken, with a later key pending.
C26_Witness ==
    /\ Injective(sent)
    /\ keysOut
    /\ Len(received) = 1
    /\ Len(toProvide) = 1
    /\ nextKey = sent[2]

\* C27: while provideCollector runs with the context live and the input
\* open, it can take the producer's next key in idle and in armed mode alike,
\* however many keys are pending and whether or not the consumer takes any.
C27_ProducerNotBlocked ==
    (colPc = "running" /\ ~cancelled /\ ~newBlocksClosed /\ Len(sent) < MaxInput)
        => ENABLED CollectorRecv

\* A key is armed and another pending, the consumer has taken none so far,
\* and the producer has a further key to hand over.
C27_Witness ==
    /\ colPc = "running"
    /\ ~cancelled
    /\ ~newBlocksClosed
    /\ keysOut
    /\ Len(toProvide) >= 1
    /\ received = <<>>
    /\ Len(sent) < MaxInput


\* C32: in every reachable state the tokens in limit are as many as the
\* announce tasks started and not yet ended, between 0 and provideWorkerMax;
\* a token is added only by the spawner as it starts a task for the key it
\* holds, and taken out only by a task that ends.
C32_TokensAreTasks ==
    /\ limit = Len(tasks)
    /\ limit \in 0..provideWorkerMax

C32_TokenStep ==
    /\ limit' > limit =>
          /\ limit' = limit + 1
          /\ pwPc = "acquire"
          /\ Len(tasks') = Len(tasks) + 1
          /\ SubSeq(tasks', 1, Len(tasks)) = tasks
          /\ tasks'[Len(tasks')].k = pwKey
          /\ tasks'[Len(tasks')].pc = "start"
    /\ limit' < limit =>
          /\ limit' = limit - 1
          /\ \E i \in 1..Len(tasks) :
                /\ tasks[i].pc = "providing"
                /\ tasks' = RemoveAt(tasks, i)
          /\ pwPc' = pwPc

C32_SemaphoreConserved == [] C32_TokensAreTasks /\ [][C32_TokenStep]_vars

\* Every slot is taken again after a task has ended and given its token
\* back.
C32_Witness ==
    /\ provideWorkerMax = 2
    /\ limit = 2
    /\ Len(tasks) = 2
    /\ provCompleted >= 1

\* C33: the spawner takes a key from provideKeys only when it holds none, so
\* it holds at most one key that waits for a slot and at most
\* provideWorkerMax + 1 keys have left provideCollector without their
\* announce having ended; every later key is the armed one or is pending in
\* toProvide, in the order of arrival.
C33_Bounded ==
    /\ (pwKey # NoKey) <=> (pwPc = "acquire")
    /\ Len(received) - provCompleted <= Len(tasks) + 1
    /\ Len(received) - provCompleted <= provideWorkerMax + 1
    /\ SubSeq(sent, Len(received) + 1, Len(sent)) =
          IF keysOut THEN <<nextKey>> \o toProvide ELSE <<>>

C33_ReceiveStep ==
    received' # received =>
        /\ pwPc = "select"
        /\ pwKey = NoKey
        /\ Len(received') = Len(received) + 1
        /\ Len(received) = provCompleted + Len(tasks)

C33_Backpressure == [] C33_Bounded /\ [][C33_ReceiveStep]_vars

\* With one slot, taken, the spawner holds the second key and the third is
\* armed in provideCollector, which nobody takes.
C33_Witness ==
    /\ provideWorkerMax = 1
    /\ Len(tasks) = 1
    /\ pwPc = "acquire"
    /\ Len(received) - provCompleted = 2
    /\ keysOut
    /\ Len(sent) = 3
    /\ ~cancelled

RECURSIVE CountIn(_, _)
CountIn(s, k) ==
    IF s = <<>> THEN 0
    ELSE (IF Head(s) = k THEN 1 ELSE 0) + CountIn(Tail(s), k)

\* C34: the Provide calls made for a key are never more than the times the
\* spawner received it, nor than the times it was sent on newBlocks; unless
\* the process closes, every key the spawner received gets its one Provide
\* call, so that in the end the calls for a key are as many as its
\* receptions.
C34_NoMoreThanReceived ==
    /\ \A k \in Keys :
          /\ provCalls[k] <= CountIn(received, k)
          /\ CountIn(received, k) <= CountIn(sent, k)
    /\ \A i, j \in 1..Len(tasks) : i # j => tasks[i].n # tasks[j].n

C34_AllProvided == \A k \in Keys : provCalls[k] = CountIn(received, k)

C34_OneProvidePerKey ==
    /\ [] C34_NoMoreThanReceived
    /\ <>[](cancelled \/ C34_AllProvided)

\* The same key went in twice and Provide was called twice for it, while
\* the process is not closing.
C34_Witness ==
    /\ ~cancelled
    /\ \E k \in Keys : CountIn(sent, k) = 2 /\ provCalls[k] = 2
    /\ C34_AllProvided
    /\ Len(received) = 3

\* The spawner returned on closing with a key for which no Provide call is
\* made: every task has ended.
C34_Dropped ==
    /\ cancelled
    /\ pwPc = "returned"
    /\ tasks = <<>>
    /\ \E k \in Keys : provCalls[k] < CountIn(received, k)

\* C35: provideCollector passes equal keys on like any others: the keys
\* received on provideKeys are at every moment the first of the keys sent on
\* newBlocks, equal ones included, and with no cancellation, the input kept
\* open and a consumer that keeps receiving, in the end they are all of them.
C35_PrefixWithRepeats == IsPrefix(received, sent)

C35_NoDedup ==
    /\ [] C35_PrefixWithRepeats
    /\ <>[](cancelled \/ newBlocksClosed \/ received = sent)

\* The same key went in three times, the later two while the first had not
\* been taken, and came out three times.
C35_Witness ==
    /\ sent = <<1, 1, 1>>
    /\ received = sent
    /\ sentAtFirstDone = 3
    /\ ~cancelled
    /\ ~newBlocksClosed

\* C36: when provideCollector has returned, for a cancelled context or a
\* closed input, provideKeys is closed for good and no key is sent on it any
\* more: the armed key and the pending keys stay undelivered; a spawner at
\* its outer select can take the closed channel, leaves that select only by
\* returning, and eventually returns; once it has returned no announce task
\* is started.
C36_ClosedSeen ==
    (colPc # "running" /\ pwPc = "select") => ENABLED SpawnerKeysClosed

C36_ExitStep ==
    /\ colPc # "running" =>
          /\ colPc' = colPc
          /\ received' = received
          /\ sent' = sent
          /\ <<keysOut', nextKey', toProvide'>> = <<keysOut, nextKey, toProvide>>
    /\ (colPc # "running" /\ pwPc = "select") => pwPc' \in {"select", "returned"}
    /\ pwPc = "returned" =>
          /\ pwPc' = "returned"
          /\ Len(tasks') <= Len(tasks)
          /\ limit' <= limit

C36_OutputClosedOnExit ==
    /\ [] C36_ClosedSeen
    /\ [][C36_ExitStep]_vars
    /\ (colPc # "running") ~> (pwPc = "returned")

\* provideCollector returned on the cancellation with a key armed and one
\* pending, neither of which was delivered, and the spawner has returned.
C36_Witness ==
    /\ colPc = "ctxDone"
    /\ keysOut
    /\ Len(toProvide) = 1
    /\ Len(received) = 1
    /\ Len(sent) = 3
    /\ pwPc = "returned"
\* --------------------------------------------------- claims: task workers
\* C9: with envelopes offered on the engine's outbox, one or more workers, no
\* cancellation and fair scheduling, every envelope is eventually processed;
\* each envelope is obtained by exactly one worker, and bs.wm.SendBlocks and
\* bs.engine.MessageSent are each called exactly once for it.
HoldersOf(e) == {w \in Workers : twEnv[w].id = e}

C9_AtMostOnce ==
    \A e \in Envelopes :
        /\ envLog[e].obtained <= 1
        /\ envLog[e].ledger <= 1
        /\ envLog[e].sendCalls <= 1
        /\ Cardinality(HoldersOf(e)) <= 1
        /\ envLog[e].counted >= 1 =>
              /\ envLog[e].obtained = 1
              /\ envLog[e].ledger = 1
              /\ envLog[e].sendCalls = 1
              /\ envLog[e].sendReturns = 1
              /\ envLog[e].counted = 1

AllProcessed == \A e \in Envelopes : envLog[e].counted = 1

C9_ExactlyOnce ==
    /\ [] C9_AtMostOnce
    /\ <>(cancelled \/ AllProcessed)

\* Two workers each processed an envelope, with no cancellation.
C9_Witness ==
    /\ ~cancelled
    /\ AllProcessed
    /\ TaskWorkerCount > 1
    /\ blocksSent > 0

\* C10: for every envelope a worker obtains, bs.engine.MessageSent comes
\* first, then bs.wm.SendBlocks, then the counter update: SendBlocks has not
\* started before MessageSent, and the counters are not updated before
\* SendBlocks returned.
C10_StepOrder ==
    \A e \in Envelopes :
        /\ envLog[e].sendCalls > 0 => envLog[e].ledger > 0
        /\ envLog[e].sendReturns > 0 => envLog[e].sendCalls > 0
        /\ envLog[e].counted > 0 => envLog[e].sendReturns > 0

\* SendBlocks runs for an envelope whose MessageSent has been made and whose
\* counters are not yet updated.
C10_Witness ==
    \E w \in Workers :
        /\ twPc[w] = "sending"
        /\ envLog[twEnv[w].id].ledger = 1
        /\ envLog[twEnv[w].id].sendCalls = 1
        /\ envLog[twEnv[w].id].counted = 0

\* C11 as stated: bs.engine.MessageSent is invoked for an envelope only once
\* its transmission has succeeded, so an envelope whose transmission fails
\* produces no ledger update.
C11_LedgerAfterSuccess ==
    \A e \in Envelopes :
        envLog[e].ledger > 0 =>
            envLog[e].sendReturns > 0 /\ envLog[e].sendFailed = 0

\* C11 (amended): bs.engine.MessageSent is invoked once for every obtained
\* envelope before its transmission is attempted, so the ledger is updated
\* whatever becomes of the transmission: an envelope whose transmission
\* failed has had its one ledger update.
C11_LedgerFirst ==
    \A e \in Envelopes :
        /\ envLog[e].sendReturns > 0 => envLog[e].ledger = 1
        /\ envLog[e].sendFailed > 0 => envLog[e].ledger = 1

C11_LedgerStep ==
    \A e \in Envelopes :
        envLog'[e].ledger # envLog[e].ledger =>
            /\ envLog'[e].ledger = 1
            /\ envLog[e].sendCalls = 0

C11_LedgerWhateverOutcome == [] C11_LedgerFirst /\ [][C11_LedgerStep]_vars

\* The transmission of an envelope failed; its ledger update was made.
C11_Witness ==
    \E e \in Envelopes : envLog[e].sendFailed = 1 /\ envLog[e].ledger = 1

\* C12: blocksSent is the number of blocks, and dataSent the byte length of
\* those blocks, over all envelopes whose counter step has run, each block
\* counted once: exactly so whenever bs.counterLk is free, and plus the blocks
\* its holder has counted so far while it is held. Neither counter decreases.
RECURSIVE CountedBlocks(_)
CountedBlocks(n) ==
    IF n = 0 THEN 0
    ELSE CountedBlocks(n - 1)
         + (IF envLog[n].counted = 1 THEN Len(envLog[n].blocks) ELSE 0)

RECURSIVE CountedData(_)
CountedData(n) ==
    IF n = 0 THEN 0
    ELSE CountedData(n - 1)
         + (IF envLog[n].counted = 1 THEN SumOf(envLog[n].blocks) ELSE 0)

C12_CountersExact ==
    /\ \A e \in Envelopes : envLog[e].counted <= 1
    /\ counterLk = 0 =>
          /\ blocksSent = CountedBlocks(NumEnvelopes)
          /\ dataSent = CountedData(NumEnvelopes)
    /\ counterLk # 0 =>
          /\ blocksSent = CountedBlocks(NumEnvelopes) + twIdx[counterLk]
          /\ dataSent = CountedData(NumEnvelopes)
                        + SumOf(SubSeq(twEnv[counterLk].blocks, 1, twIdx[counterLk]))

C12_CountersGrow == blocksSent' >= blocksSent /\ dataSent' >= dataSent

C12_Counters == [] C12_CountersExact /\ [][C12_CountersGrow]_vars

\* One worker holds bs.counterLk with its envelope partly counted while
\* another worker waits for the lock.
C12_Witness ==
    \E w, v \in Workers :
        /\ w # v
        /\ counterLk = w
        /\ twIdx[w] = 1
        /\ Len(twEnv[w].blocks) = 2
        /\ twPc[v] = "count"

\* C13: an envelope whose SendBlocks transmission fails contributes nothing
\* to blocksSent and dataSent: the counters hold no more than the blocks and
\* bytes of the envelopes whose transmission did not fail.
RECURSIVE TransmittedBlocks(_)
TransmittedBlocks(n) ==
    IF n = 0 THEN 0
    ELSE TransmittedBlocks(n - 1)
         + (IF envLog[n].sendFailed = 0 THEN Len(envLog[n].blocks) ELSE 0)

RECURSIVE TransmittedData(_)
TransmittedData(n) ==
    IF n = 0 THEN 0
    ELSE TransmittedData(n - 1)
         + (IF envLog[n].sendFailed = 0 THEN SumOf(envLog[n].blocks) ELSE 0)

C13_FailedNotCounted ==
    /\ blocksSent <= TransmittedBlocks(NumEnvelopes)
    /\ dataSent <= TransmittedData(NumEnvelopes)

\* C14: when the inner channel a worker obtained is closed before an envelope
\* is read, that worker makes no MessageSent, no SendBlocks and no counter
\* update for it and is back at the outer select; no other worker is blocked
\* or ended by it, and the envelopes offered later are still processed (with
\* fair scheduling and no cancellation).
C14_WithdrawStep ==
    withdrawn' # withdrawn =>
        /\ envLog' = envLog
        /\ blocksSent' = blocksSent /\ dataSent' = dataSent
        /\ counterLk' = counterLk
        /\ twEnv' = twEnv
        /\ \E w \in Workers :
              /\ twPc[w] = "inner"
              /\ twPc'[w] = "outer"
              /\ \A v \in Workers \ {w} : twPc'[v] = twPc[v]

C14_Withdrawn ==
    /\ [][C14_WithdrawStep]_vars
    /\ (withdrawn > 0) ~> (cancelled \/ AllProcessed)

\* An offer was withdrawn, no worker has ended and every envelope has been
\* processed.
C14_Witness ==
    /\ withdrawn > 0
    /\ ~cancelled
    /\ AllProcessed
    /\ \A w \in Workers : twPc[w] # "returned"

\* C15: bs.wm.SendBlocks is invoked at most once per envelope whatever its
\* outcome, and after a failed transmission the worker finishes the envelope,
\* is back in its loop and the envelopes still to come are processed (with
\* fair scheduling and no cancellation).
C15_OneAttempt ==
    \A e \in Envelopes :
        /\ envLog[e].sendCalls <= 1
        /\ envLog[e].sendFailed <= envLog[e].sendCalls

SomeSendFailed == \E e \in Envelopes : envLog[e].sendFailed > 0

SendFailedAt(w) ==
    IF w \in Workers THEN twEnv[w].sendOk = "failed" ELSE FALSE

BackInLoop(w) ==
    IF w \in Workers THEN twPc[w] = "outer" /\ twEnv[w] = NoEnvelope ELSE FALSE

C15_NoRetryNotFatal ==
    /\ [] C15_OneAttempt
    /\ \A w \in 1..MaxTaskWorkers :
          SendFailedAt(w) ~> BackInLoop(w)
    /\ SomeSendFailed ~> (cancelled \/ AllProcessed)

\* The only worker failed to transmit the first envelope and has processed
\* the others after it.
C15_Witness ==
    /\ TaskWorkerCount = 1
    /\ envLog[1].sendFailed = 1
    /\ AllProcessed
    /\ ~cancelled

\* C16: after the context is cancelled every task worker eventually returns,
\* whether it waited at the outer or at the inner select.
AllReturned == \A w \in Workers : twPc[w] = "returned"

C16_WorkersReturn == cancelled ~> AllReturned

\* Cancelled with envelopes still to come: the workers have returned.
C16_Witness ==
    /\ cancelled
    /\ AllReturned
    /\ TaskWorkerCount > 1
    /\ offered < NumEnvelopes

\* C28: once a worker has obtained an envelope it makes MessageSent,
\* SendBlocks and the counter update for it before it can return, also when
\* the context is cancelled in between: an envelope with some but not all of
\* its steps made is in the hands of a worker that is going on with it, every
\* envelope obtained is eventually counted, and when all workers have
\* returned no envelope has its MessageSent made and its counters not updated.
InProgress(e) == envLog[e].obtained > envLog[e].counted

C28_HeldUntilCounted ==
    /\ \A e \in Envelopes :
          InProgress(e) =>
              \E w \in Workers :
                  /\ twEnv[w].id = e
                  /\ twPc[w] \in {"ledger", "send", "sending", "count", "counting"}
    /\ \A w \in Workers : twPc[w] = "returned" => twEnv[w] = NoEnvelope
    /\ AllReturned => \A e \in Envelopes : envLog[e].ledger = envLog[e].counted

C28_AllOrNothing ==
    /\ [] C28_HeldUntilCounted
    /\ <>[](\A e \in Envelopes : ~InProgress(e))

\* The context is cancelled and a worker is about to call SendBlocks for the
\* envelope whose MessageSent it has made.
C28_Witness ==
    \E w \in Workers :
        /\ cancelled
        /\ twPc[w] = "send"
        /\ envLog[twEnv[w].id].ledger = 1
        /\ envLog[twEnv[w].id].sendCalls = 0

\* C29: once the context has been cancelled no worker obtains an envelope.
C29_ObtainStep ==
    cancelled => \A e \in Envelopes : envLog'[e].obtained = envLog[e].obtained

C29_NoObtainAfterCancel == [][C29_ObtainStep]_vars

\* ------------------------------------------------- claims: startWorkers
CountOf(fn) == Cardinality({k \in 1..Len(launched) : launched[k].fn = fn})

TaskIds == {launched[k].id : k \in {j \in 1..Len(launched) : launched[j].fn = "taskWorker"}}

Singles == {"providerQueryManager", "rebroadcastWorker", "provideCollector",
            "provideWorker"}

RunningTaskWorkers == {w \in Workers : IsLaunched(w) /\ twPc[w] # "returned"}

\* C31: startWorkers starts one providerQueryManager, TaskWorkerCount task
\* workers (8 unless configured otherwise) with the distinct ids
\* 0..TaskWorkerCount-1, one rebroadcastWorker, one provideCollector and one
\* provideWorker; after it has returned no goroutine is started any more and
\* the task workers that run become fewer only by a return on cancellation.
C31_Launched ==
    /\ \A fn \in Singles : CountOf(fn) <= 1
    /\ CountOf("taskWorker") = Cardinality(TaskIds)
    /\ TaskIds = 0..(swI - 1)
    /\ swI <= TaskWorkerCount
    /\ swPc = "returned" =>
          /\ \A fn \in Singles : CountOf(fn) = 1
          /\ CountOf("taskWorker") = TaskWorkerCount
          /\ TaskIds = 0..(TaskWorkerCount - 1)
          /\ Len(launched) = TaskWorkerCount + 4

C31_AfterStep ==
    /\ swPc = "returned" => launched' = launched
    /\ TaskWorkerCount' = TaskWorkerCount
    /\ RunningTaskWorkers' # RunningTaskWorkers =>
          \/ Len(launched') = Len(launched) + 1
          \/ cancelled /\ RunningTaskWorkers' \subseteq RunningTaskWorkers

C31_FixedWorkerSet == [] C31_Launched /\ [][C31_AfterStep]_vars

\* startWorkers has returned with the default TaskWorkerCount; after the
\* cancellation some of its eight task workers have returned, others not.
C31_Witness ==
    /\ swPc = "returned"
    /\ TaskWorkerCount = TaskWorkerCountDefault
    /\ CountOf("taskWorker") = 8
    /\ cancelled
    /\ Cardinality(RunningTaskWorkers) = 5

====
